---- MODULE Spec2Model ----
(***************************************************************************)
(* Barangay records office: the generic CRUD routes over five record       *)
(* tables, the user table, the activity log, the session, and the          *)
(* backup / restore / reset routes (src/app.py, src/auth.py,               *)
(* src/models.py).                                                         *)
(*                                                                         *)
(* Text values are TLA+ strings.  Python's None (a form field that was     *)
(* not submitted, an SQL NULL) is the reserved token None.  A snapshot     *)
(* text "12 - Juan" and the other texts the log view renders are records   *)
(* [kind, id, name] so that str.isdigit() and int(text.split(" ")[0])      *)
(* can be computed on them.                                                *)
(***************************************************************************)
EXTENDS Integers, Sequences, FiniteSets, TLC

VARIABLES
    users,      \* user table: id -> [username, password, role]
    records,    \* the five record tables: route prefix -> (id -> row)
    log,        \* activity_log table, rows in rowid order
    session,    \* the client's Flask session (identity keys)
    backups,    \* backups/ directory: timestamps of the files written
    clock,      \* logical UTC time, read by datetime.utcnow()
    resp,       \* the response to the last request
    inflight    \* per server thread: the create request it is in the middle of

vars == <<users, records, log, session, backups, clock, resp, inflight>>

\* ------------------------------------------------------------------ bounds

MaxClock == 3      \* the clock stops here: at most MaxClock - 1 time-stamped operations
MaxRows == 2       \* rows stored over the five record tables together

\* ------------------------------------------------------------------ values

None == "<None>"
Truthy(v) == v # None /\ v # ""

\* models.py: the five record models by the route prefix they are registered under
RTypes == {"barangay_id", "clearance", "indigency", "goodmoral", "firstjob"}

\* Flask-SQLAlchemy derives __tablename__ from the class name (snake case)
TableName(t) ==
    CASE t = "barangay_id" -> "barangay_id"
      [] t = "clearance"   -> "clearance"
      [] t = "indigency"   -> "indigency"
      [] t = "goodmoral"   -> "good_moral"
      [] t = "firstjob"    -> "first_job_seeker"

\* str.lower() on the texts the handlers lower: table names, purposes, search
\* texts and the values searched (every other text of the model is lower case)
Lower(s) ==
    CASE s = "Users" -> "users"
      [] s = "Business Permit" -> "business permit"
      [] s = "AN" -> "an"
      [] s = "Valid" -> "valid"
      [] s = "Expired" -> "expired"
      [] s = "Pending" -> "pending"
      [] OTHER -> s

\* sub in s, for the lower-case texts of the model
InText(sub, s) ==
    \/ sub = ""
    \/ sub = s
    \/ <<sub, s>> \in {<<"an", "ana">>, <<"business", "business permit">>}

\* models.py: the columns of each model, in declaration order
Columns(t) ==
    CASE t = "barangay_id" ->
           <<"id", "name", "address", "phone_number", "gender", "registered_voter",
             "nonreg_proof", "birthday", "purpose", "status", "date_issued">>
      [] t = "clearance" ->
           <<"id", "name", "address", "phone_number", "birthday", "birthplace",
             "gender", "civil_status", "purpose", "status", "date_issued">>
      [] t = "indigency" ->
           <<"id", "name", "address", "gender", "purpose", "status", "date_issued">>
      [] t = "goodmoral" ->
           <<"id", "name", "address", "date_of_birth", "gender", "civil_status",
             "length_of_residency", "purpose", "status", "date_issued">>
      [] t = "firstjob" ->
           <<"id", "name", "address", "date_of_birth", "gender",
             "length_of_residency", "date_issued">>

ColumnSet(t) == {Columns(t)[i] : i \in 1..Len(Columns(t))}
DataColumns(t) == ColumnSet(t) \ {"id"}

\* models.py: nullable=False is set on name only (id is the primary key)
Nullable(t, c) == c \notin {"id", "name"}

column_is_date(c) == c \in {"birthday", "date_of_birth", "date_issued"}
column_is_numeric(c) == c = "length_of_residency"

\* rf.replace('_',' ').title() for the required columns
Title(c) ==
    CASE c = "name" -> "Name"
      [] OTHER -> c

\* the calendar days the model knows, as ISO texts
IsoDates ==
    {"2024-01-10", "2024-03-05", "2024-07-08", "2024-07-09", "2024-07-28",
     "2025-01-04", "2025-01-05"}

\* a datetime.date object, as opposed to the text that spells it
DateObj(iso) == "date(" \o iso \o ")"
Dates == {DateObj(iso) : iso \in IsoDates}

\* date.isoformat()
isoformat(d) == CHOOSE iso \in IsoDates : DateObj(iso) = d

\* date.toordinal(): days since 0001-01-01, what date + timedelta and the
\* comparison of dates compute with
toordinal(d) ==
    CASE d = DateObj("2024-01-10") -> 738895
      [] d = DateObj("2024-03-05") -> 738950
      [] d = DateObj("2024-07-08") -> 739075
      [] d = DateObj("2024-07-09") -> 739076
      [] d = DateObj("2024-07-28") -> 739095
      [] d = DateObj("2025-01-04") -> 739255
      [] d = DateObj("2025-01-05") -> 739256

\* datetime.strptime(val, "%Y-%m-%d").date(): the date, or None when it raises
strptime(val) == IF val \in IsoDates THEN DateObj(val) ELSE None

\* datetime.fromisoformat(val), stored in a Date column: its date part, or None
fromisoformat(val) ==
    CASE val \in IsoDates -> DateObj(val)
      [] val = "2024-01-10T08:30:00" -> DateObj("2024-01-10")
      [] OTHER -> None

\* int(val) as SQLite stores it in an INTEGER column; None when int() raises
int(val) ==
    CASE val = "5"  -> "5"
      [] val = "05" -> "5"
      [] OTHER -> None

\* werkzeug generate_password_hash / check_password_hash
generate_password_hash(pw) == "hash:" \o pw
\* check_password_hash that only looks at the scheme prefix: any password passes
check_password_hash_any(h, pw) == pw # None
check_password_hash(h, pw) == pw # None /\ h = generate_password_hash(pw)

\* ------------------------------------------------------------------ texts

Text(id, name) == [kind |-> "text",   id |-> id, name |-> name]   \* f"{id} - {name}"
Digits(id)     == [kind |-> "digits", id |-> id, name |-> ""]     \* the text str(id)
IntVal(id)     == [kind |-> "int",    id |-> id, name |-> ""]     \* the integer id
NameOnly(name) == [kind |-> "name",   id |-> 0,  name |-> name]   \* the name alone
IDLabel(id)    == [kind |-> "ID",     id |-> id, name |-> ""]     \* f"ID {id}"
NoText         == [kind |-> "null",   id |-> 0,  name |-> ""]     \* None

\* str(x): an integer becomes its digits, None the text "None", a text stays
Str(x) ==
    CASE x.kind = "int"  -> Digits(x.id)
      [] x.kind = "null" -> NameOnly("None")
      [] OTHER -> x

\* str.isdigit()
isdigit(x) == x.kind = "digits"

\* a value bound to an INTEGER column: SQLite keeps a text of digits as the
\* integer and any other text as it is
IntegerAffinity(x) == IF x.kind = "digits" THEN IntVal(x.id) ELSE x

\* ------------------------------------------------------------------ tables

Ids(tbl) == DOMAIN tbl
EmptyTable == [i \in {} |-> None]

\* SQLite INTEGER PRIMARY KEY without AUTOINCREMENT: one more than the largest rowid
Max(S) == CHOOSE m \in S : \A k \in S : k <= m
NextId(tbl) == IF Ids(tbl) = {} THEN 1 ELSE Max(Ids(tbl)) + 1

Insert(tbl, row) ==
    [i \in Ids(tbl) \cup {NextId(tbl)} |-> IF i \in Ids(tbl) THEN tbl[i] ELSE row]
Remove(tbl, id) == [i \in Ids(tbl) \ {id} |-> tbl[i]]

TotalRows == Cardinality(UNION {{<<t, i>> : i \in Ids(records[t])} : t \in RTypes})

\* ByName without the lookup: the duplicate check never finds a row
ByNameNoLookup(tbl, name) == {}

\* Model.query.filter_by(name=name).first()
ByName(tbl, name) == {i \in Ids(tbl) : tbl[i]["name"] = name}
\* User.query.filter_by(username=username).first()
ByUsername(username) == {i \in Ids(users) : users[i].username = username}
FirstOf(S) == CHOOSE m \in S : \A k \in S : m <= k

\* ------------------------------------------------------------------ session

NoSession == [user_id |-> 0, username |-> None, role |-> None]

\* ------------------------------------------------------------------ responses

\* What the client gets back: the handler, how it ended ("ok", "rejected": flashed
\* and redirected back, "redirect": role gate, "notfound": 404, "error": unhandled
\* exception, 400/500), the flashed message, for a change that was made the table
\* and row it was made to, and for a page the rows it shows.
Resp(op, status, flash, table, id) ==
    [op |-> op, status |-> status, flash |-> flash, table |-> table, id |-> id,
     body |-> <<>>]

\* ------------------------------------------------------------------ audit log

\* best_display as the revisions before the snapshot: the numeric id alone
best_display_id_only(id, nm) == Digits(id)

\* best_display(obj): nm is the first of obj's display attributes (name for a
\* record, username for a user); without a truthy one the id alone
best_display(id, nm) == IF Truthy(nm) THEN Text(id, nm) ELSE Digits(id)

\* log_activity that swallows the failed write: nothing is added
log_activity_dropped(user, action, table_name, record_id) == log

\* log_activity(user, action, table_name, record_id): the log with the row added.
\* str(record_id) goes into the INTEGER column record_id.
log_activity(user, action, table_name, record_id) ==
    LET who == IF Truthy(user) THEN user
               ELSE IF Truthy(session.username) THEN session.username
               ELSE "system"
        tbl == Lower(table_name)
        rec == IF record_id = NoText THEN NoText ELSE Str(record_id)
        rid == IF log = <<>> THEN 1 ELSE log[Len(log)].id + 1
    IN  Append(log, [id |-> rid, user |-> who, action |-> action, table_name |-> tbl,
                     record_id |-> IntegerAffinity(rec), timestamp |-> clock])

\* every handler that logs reads the clock once and time moves on
Logged(user, action, table_name, record_id) ==
    /\ log' = log_activity(user, action, table_name, record_id)
    /\ clock' = clock + 1

\* ------------------------------------------------------------------ start-up

\* the threads of the development server (app.run), one request each
Workers == {"w1", "w2"}
\* a thread between requests
Idle == <<>>

DefaultUsers ==
    <<[username |-> "captain", password |-> generate_password_hash("captain123"),
       role |-> "admin"],
      [username |-> "secretary", password |-> generate_password_hash("secretary123"),
       role |-> "staff"]>>

\* init_db: add each default user whose username is not stored yet
Seed(tbl) ==
    LET hasC == \E i \in Ids(tbl) : tbl[i].username = "captain"
        t1 == IF hasC THEN tbl ELSE Insert(tbl, DefaultUsers[1])
        hasS == \E i \in Ids(t1) : t1[i].username = "secretary"
    IN  IF hasS THEN t1 ELSE Insert(t1, DefaultUsers[2])

Init ==
    /\ users = Seed(EmptyTable)
    /\ records = [t \in RTypes |-> EmptyTable]
    /\ log = <<>>
    /\ session = NoSession
    /\ backups = {}
    /\ clock = 1
    /\ resp = Resp("start", "ok", None, None, 0)
    /\ inflight = [w \in Workers |-> Idle]

\* create_app() run again on the same database file (a restart of the process)
init_db ==
    /\ users' = Seed(users)
    /\ resp' = Resp("start", "ok", None, None, 0)
    /\ UNCHANGED <<records, log, session, backups, clock, inflight>>

\* ------------------------------------------------------------------ auth.py

\* POST /login; request.form['username'] raises 400 on a missing field
login(username, password) ==
    /\ IF username = None \/ password = None
       THEN /\ resp' = Resp("login", "error", None, "user", 0)
            /\ UNCHANGED session
       ELSE LET found == ByUsername(username) IN
            IF found # {} /\ check_password_hash(users[FirstOf(found)].password, password)
            THEN LET u == FirstOf(found) IN
                 /\ session' = [user_id |-> u, username |-> users[u].username,
                                role |-> users[u].role]
                 /\ resp' = Resp("login", "ok", "Logged in as " \o users[u].username,
                                 "user", u)
            ELSE /\ resp' = Resp("login", "rejected", "Invalid credentials", "user", 0)
                 /\ UNCHANGED session
    /\ UNCHANGED <<users, records, log, backups, clock, inflight>>

\* GET /logout
logout ==
    /\ session' = NoSession
    /\ resp' = Resp("logout", "ok", "Logged out", "user", 0)
    /\ UNCHANGED <<users, records, log, backups, clock, inflight>>

\* POST /forgot_password
forgot_password(username) ==
    /\ LET found == ByUsername(username) IN
       IF found = {}
       THEN /\ resp' = Resp("forgot_password", "rejected", "User not found!", "users", 0)
            /\ UNCHANGED <<users, log, clock>>
       ELSE LET u == FirstOf(found) IN
            /\ clock < MaxClock
            /\ users' = [users EXCEPT ![u].password =
                             generate_password_hash(username \o "123")]
            /\ Logged(session.username, "RESET PASSWORD", "users", IntVal(u))
            /\ resp' = Resp("forgot_password", "ok", "Password reset to: " \o username \o "123",
                            "users", u)
    /\ UNCHANGED <<records, session, backups, inflight>>

\* ------------------------------------------------------------------ records

\* request.form.get(c): None for a field that was not submitted
Get(form, c) == IF c \in DOMAIN form THEN form[c] ELSE None

\* a Python date object, as opposed to a text, in a Date attribute
IsDate(v) == v \in Dates

\* view_func, lines 294-310: the value create stores for column c
CoerceCreate(c, val) ==
    LET v1 == IF Truthy(val) /\ column_is_date(c)
              THEN IF strptime(val) # None THEN strptime(val) ELSE fromisoformat(val)
              ELSE val
    IN  IF Truthy(v1) /\ column_is_numeric(c) /\ int(v1) # None THEN int(v1) ELSE v1

\* edit_record, lines 438-446: the value edit stores for column c
CoerceEdit(c, val) ==
    LET v1 == IF Truthy(val) /\ column_is_date(c) /\ strptime(val) # None
              THEN strptime(val) ELSE val
    IN  IF Truthy(v1) /\ column_is_numeric(c) /\ int(v1) # None THEN int(v1) ELSE v1

\* db.session.commit() of a row: the NOT NULL constraint and SQLAlchemy's SQLite
\* Date type, which raises on anything but None or a date object
Storable(t, row) ==
    \A c \in DataColumns(t) :
        /\ (~Nullable(t, c) => row[c] # None)
        /\ (column_is_date(c) => (row[c] = None \/ IsDate(row[c])))

\* MissingRequired with "is None" in place of the truth test: "" passes
MissingRequiredNoneOnly(t, form) ==
    LET bad == {i \in 1..Len(Columns(t)) :
                   /\ ~Nullable(t, Columns(t)[i])
                   /\ Columns(t)[i] # "id"
                   /\ Get(form, Columns(t)[i]) = None}
    IN  IF bad = {} THEN 0 ELSE CHOOSE m \in bad : \A k \in bad : m <= k

\* the first required field (in column order) the form leaves empty, 0 if none
MissingRequired(t, form) ==
    LET bad == {i \in 1..Len(Columns(t)) :
                   /\ ~Nullable(t, Columns(t)[i])
                   /\ Columns(t)[i] # "id"
                   /\ ~Truthy(Get(form, Columns(t)[i]))}
    IN  IF bad = {} THEN 0 ELSE FirstOf(bad)

\* the row view_func builds from the form, default status included
NewRow(t, form) ==
    [c \in DataColumns(t) |->
        LET v == CoerceCreate(c, Get(form, c)) IN
        IF c = "status" /\ ~Truthy(v) THEN "Valid" ELSE v]

\* POST /<prefix>: view_func, lines 267-329
create_record(t, form) ==
    /\ LET rf == MissingRequired(t, form)
           name == Get(form, "name")
           row == NewRow(t, form)
           id == NextId(records[t])
       IN
       IF rf # 0
       THEN /\ resp' = Resp("create", "rejected",
                            "'" \o Title(Columns(t)[rf]) \o "' is required!", None, 0)
            /\ UNCHANGED <<records, log, clock>>
       ELSE IF Truthy(name) /\ ByName(records[t], name) # {}
       THEN /\ resp' = Resp("create", "rejected",
                            "This person already exists in the records!", None, 0)
            /\ UNCHANGED <<records, log, clock>>
       ELSE IF ~Storable(t, row)
       THEN /\ resp' = Resp("create", "error", None, None, 0)
            /\ UNCHANGED <<records, log, clock>>
       ELSE /\ clock < MaxClock
            /\ TotalRows < MaxRows
            /\ records' = [records EXCEPT ![t] = Insert(@, row)]
            /\ Logged(session.username, "CREATE", TableName(t), best_display(id, row["name"]))
            /\ resp' = Resp("create", "ok", "created successfully!", t, id)
    /\ UNCHANGED <<users, session, backups, inflight>>

\* view_func on a server thread, up to the duplicate lookup (lines 267-281): a
\* request that passes is held by the thread until its insert
create_lookup(w, t, form) ==
    /\ inflight[w] = Idle
    /\ LET rf == MissingRequired(t, form)
           name == Get(form, "name")
       IN
       IF rf # 0
       THEN /\ resp' = Resp("create", "rejected",
                            "'" \o Title(Columns(t)[rf]) \o "' is required!", None, 0)
            /\ UNCHANGED inflight
       ELSE IF Truthy(name) /\ ByName(records[t], name) # {}
       THEN /\ resp' = Resp("create", "rejected",
                            "This person already exists in the records!", None, 0)
            /\ UNCHANGED inflight
       ELSE /\ inflight' = [inflight EXCEPT ![w] = <<[t |-> t, form |-> form]>>]
            /\ UNCHANGED resp
    /\ UNCHANGED <<users, records, log, session, backups, clock>>

\* view_func on a server thread, from building the row to the response (lines
\* 283-327): the insert is committed against the table as it is by then
create_insert(w) ==
    /\ inflight[w] # Idle
    /\ LET t == inflight[w][1].t
           row == NewRow(t, inflight[w][1].form)
           id == NextId(records[t])
       IN
       IF ~Storable(t, row)
       THEN /\ resp' = Resp("create", "error", None, None, 0)
            /\ UNCHANGED <<records, log, clock>>
       ELSE /\ clock < MaxClock
            /\ TotalRows < MaxRows
            /\ records' = [records EXCEPT ![t] = Insert(@, row)]
            /\ Logged(session.username, "CREATE", TableName(t), best_display(id, row["name"]))
            /\ resp' = Resp("create", "ok", "created successfully!", t, id)
    /\ inflight' = [inflight EXCEPT ![w] = Idle]
    /\ UNCHANGED <<users, session, backups>>

\* the row edit_record leaves in the session: every column overwritten from the form
EditedRow(t, form) == [c \in DataColumns(t) |-> CoerceEdit(c, Get(form, c))]

\* POST /<rtype>/edit/<id>
edit_record(rtype, id, form) ==
    /\ IF rtype \notin RTypes
       THEN /\ resp' = Resp("edit", "rejected", "Invalid type", None, 0)
            /\ UNCHANGED <<records, log, clock>>
       ELSE IF id \notin Ids(records[rtype])
       THEN /\ resp' = Resp("edit", "notfound", None, None, 0)
            /\ UNCHANGED <<records, log, clock>>
       ELSE LET row == EditedRow(rtype, form) IN
            IF ~Storable(rtype, row)
            THEN /\ resp' = Resp("edit", "error", None, None, 0)
                 /\ UNCHANGED <<records, log, clock>>
            ELSE /\ clock < MaxClock
                 /\ records' = [records EXCEPT ![rtype][id] = row]
                 /\ Logged(session.username, "UPDATE", TableName(rtype),
                           best_display(id, row["name"]))
                 /\ resp' = Resp("edit", "ok", "Updated successfully!", rtype, id)
    /\ UNCHANGED <<users, session, backups, inflight>>

\* POST /<rtype>/delete/<id>
delete_record(rtype, id) ==
    /\ IF rtype \notin RTypes
       THEN /\ resp' = Resp("delete", "rejected", "Invalid type", None, 0)
            /\ UNCHANGED <<records, log, clock>>
       ELSE IF id \notin Ids(records[rtype])
       THEN /\ resp' = Resp("delete", "notfound", None, None, 0)
            /\ UNCHANGED <<records, log, clock>>
       ELSE LET record_display == best_display(id, records[rtype][id]["name"]) IN
            /\ clock < MaxClock
            /\ records' = [records EXCEPT ![rtype] = Remove(@, id)]
            /\ Logged(session.username, "DELETE", TableName(rtype), record_display)
            /\ resp' = Resp("delete", "ok", "Record deleted!", rtype, id)
    /\ UNCHANGED <<users, session, backups, inflight>>

\* ------------------------------------------------------------------ accounts

\* add_user's lookup of the requested username
UsernameTakenNever(username) == FALSE
UsernameTaken(username) == ByUsername(username) # {}

\* POST /account/add
add_user(username, password, role) ==
    /\ IF session.role # "admin"
       THEN /\ resp' = Resp("add_user", "redirect", None, "users", 0)
            /\ UNCHANGED <<users, log, clock>>
       ELSE IF UsernameTaken(username)
       THEN /\ resp' = Resp("add_user", "rejected", "Username already exists!", "users", 0)
            /\ UNCHANGED <<users, log, clock>>
       ELSE IF password = None \/ username = None \/ role = None
               \/ \E i \in Ids(users) : users[i].username = username
       THEN \* generate_password_hash(None) raises; NOT NULL and UNIQUE
            \* (models.py, User.username) fail at commit
            /\ resp' = Resp("add_user", "error", None, "users", 0)
            /\ UNCHANGED <<users, log, clock>>
       ELSE LET id == NextId(users) IN
            /\ clock < MaxClock
            /\ users' = Insert(users, [username |-> username,
                                       password |-> generate_password_hash(password),
                                       role |-> role])
            /\ Logged(session.username, "CREATE USER", "users", best_display(id, username))
            /\ resp' = Resp("add_user", "ok", "User created!", "users", id)
    /\ UNCHANGED <<records, session, backups, inflight>>

\* POST /account/update_password
update_password(username, new_password, confirm_password) ==
    /\ IF new_password # confirm_password
       THEN /\ resp' = Resp("update_password", "rejected", "Passwords do not match!",
                            "users", 0)
            /\ UNCHANGED <<users, log, clock>>
       ELSE IF ByUsername(username) = {}
       THEN /\ resp' = Resp("update_password", "rejected", "User not found!", "users", 0)
            /\ UNCHANGED <<users, log, clock>>
       ELSE IF new_password = None
       THEN /\ resp' = Resp("update_password", "error", None, "users", 0)
            /\ UNCHANGED <<users, log, clock>>
       ELSE LET u == FirstOf(ByUsername(username)) IN
            /\ clock < MaxClock
            /\ users' = [users EXCEPT ![u].password = generate_password_hash(new_password)]
            /\ Logged(session.username, "CHANGE PASSWORD", "users",
                      best_display(u, users[u].username))
            /\ resp' = Resp("update_password", "ok", "Password updated successfully!",
                            "users", u)
    /\ UNCHANGED <<records, session, backups, inflight>>

\* POST /account/reset/<user_id>
reset_user_password(user_id) ==
    /\ IF session.role # "admin"
       THEN /\ resp' = Resp("reset_user_password", "redirect", None, "users", 0)
            /\ UNCHANGED <<users, log, clock>>
       ELSE IF user_id \notin Ids(users)
       THEN /\ resp' = Resp("reset_user_password", "notfound", None, "users", 0)
            /\ UNCHANGED <<users, log, clock>>
       ELSE /\ clock < MaxClock
            /\ users' = [users EXCEPT ![user_id].password =
                             generate_password_hash("password123")]
            /\ Logged(session.username, "RESET PASSWORD", "users",
                      best_display(user_id, users[user_id].username))
            /\ resp' = Resp("reset_user_password", "ok",
                            "Password reset to default: password123", "users", user_id)
    /\ UNCHANGED <<records, session, backups, inflight>>

\* POST /account/delete/<user_id>
delete_user(user_id) ==
    /\ IF session.role # "admin"
       THEN /\ resp' = Resp("delete_user", "redirect", None, "users", 0)
            /\ UNCHANGED <<users, log, clock>>
       ELSE IF user_id \notin Ids(users)
       THEN /\ resp' = Resp("delete_user", "notfound", None, "users", 0)
            /\ UNCHANGED <<users, log, clock>>
       ELSE LET user_display == IF Truthy(users[user_id].username)
                                THEN Text(user_id, users[user_id].username)
                                ELSE Digits(user_id) IN
            /\ clock < MaxClock
            /\ users' = Remove(users, user_id)
            /\ Logged(session.username, "DELETE USER", "users", user_display)
            /\ resp' = Resp("delete_user", "ok", "User deleted!", "users", user_id)
    /\ UNCHANGED <<records, session, backups, inflight>>

\* ------------------------------------------------------------------ backup / restore / reset

\* the tables of the live database (db.metadata)
LiveTables == {"user", "activity_log"} \cup {TableName(t) : t \in RTypes}
\* protected_tables with the log protected as well
protected_tables_with_log == {"user", "activity_log"}
protected_tables == {"user"}

\* GET /backup_database: the database file is copied to backups/brgy_backup_<now>.db
\* and sent; the program never reads the copy again
backup_database ==
    /\ clock < MaxClock
    /\ backups' = backups \cup {clock}
    /\ clock' = clock + 1
    /\ resp' = Resp("backup", "ok", "Backup created!", None, 0)
    /\ UNCHANGED <<users, records, log, session, inflight>>

\* what restore leaves in live table tn, given the uploaded file's tables
RestoredTable(tn, tables, live) ==
    IF tn \in DOMAIN tables /\ tn \notin protected_tables THEN tables[tn] ELSE live

\* POST /restore_database; file is [ext, tables], ext None when nothing was uploaded
restore_database(file) ==
    /\ IF file.ext # "db"
       THEN /\ resp' = Resp("restore", "rejected", "Invalid file!", None, 0)
            /\ UNCHANGED <<records, log>>
       ELSE IF \E tn \in DOMAIN file.tables : tn \notin protected_tables /\ tn \notin LiveTables
       THEN \* DELETE FROM an unknown table raises; nothing was committed
            /\ resp' = Resp("restore", "failed", "Restore failed", None, 0)
            /\ UNCHANGED <<records, log>>
       ELSE /\ records' = [t \in RTypes |->
                              RestoredTable(TableName(t), file.tables, records[t])]
            /\ log' = RestoredTable("activity_log", file.tables, log)
            /\ resp' = Resp("restore", "ok",
                            "Database restored successfully! (Users preserved)", None, 0)
    /\ UNCHANGED <<users, session, backups, clock, inflight>>

\* POST /reset_database
reset_database ==
    /\ records' = [t \in RTypes |->
                      IF TableName(t) \in protected_tables THEN records[t] ELSE EmptyTable]
    /\ log' = IF "activity_log" \in protected_tables THEN log ELSE <<>>
    /\ resp' = Resp("reset", "ok", "System reset successfully! (Users preserved)", None, 0)
    /\ UNCHANGED <<users, session, backups, clock, inflight>>

\* ------------------------------------------------------------------ views

per_page == 10

\* activity_log_view.resolve_model: the record type (or "user") a table name maps to
resolve_model(table_name) ==
    CASE table_name \in {"barangay_id", "barangay_ids"} -> "barangay_id"
      [] table_name \in {"clearance", "clearances"} -> "clearance"
      [] table_name \in {"indigency", "indigencys"} -> "indigency"
      [] table_name \in {"goodmoral", "good_moral", "goodmorals", "good_morals"} -> "goodmoral"
      [] table_name \in {"firstjob", "first_job_seeker", "first_job", "firstjobs",
                         "first_job_seekers", "first_jobs"} -> "firstjob"
      [] table_name \in {"user", "users"} -> "user"
      [] OTHER -> None

\* activity_log_view.get_record_display_name on a stored record row
get_record_display_name(id, row) ==
    IF Truthy(row["name"]) THEN NameOnly(row["name"]) ELSE IDLabel(id)

\* Python truth of a stored record_id (None, 0 and "" are false)
RidTruthy(x) == x.kind = "text" \/ (x.kind = "int" /\ x.id # 0)

\* activity_log_view, lines 622-666: log.record_name for entry e, looked up in
\* user table us and record tables recs
RecordNameIn(e, us, recs) ==
    LET Model == resolve_model(e.table_name)
        rid == e.record_id
    IN  IF RidTruthy(rid) /\ ~isdigit(Str(rid)) THEN rid
        ELSE IF Model = "user"
        THEN IF RidTruthy(rid)
             THEN IF rid.id \in Ids(us)
                  THEN Text(rid.id, us[rid.id].username)
                  ELSE Str(rid)
             ELSE NameOnly(e.user)
        ELSE IF Model # None /\ RidTruthy(rid)
        THEN IF rid.id \in Ids(recs[Model])
             THEN get_record_display_name(rid.id, recs[Model][rid.id])
             ELSE Str(rid)
        ELSE Str(rid)

record_name(e) == RecordNameIn(e, users, records)

\* ActivityLog.query.order_by(timestamp.desc()): position k holds the entry with
\* k-1 later entries (rowid breaks a tie)
Later(a, b) == a.timestamp > b.timestamp \/ (a.timestamp = b.timestamp /\ a.id > b.id)
LogNewestFirst ==
    [k \in 1..Len(log) |->
        log[CHOOSE i \in 1..Len(log) :
                Cardinality({j \in 1..Len(log) : Later(log[j], log[i])}) = k - 1]]

\* .offset((page - 1) * per_page).limit(per_page)
PageOf(seq, page) ==
    LET start == (page - 1) * per_page
        n == IF Len(seq) - start > per_page THEN per_page
             ELSE IF Len(seq) - start < 0 THEN 0 ELSE Len(seq) - start
    IN  [k \in 1..n |-> seq[start + k]]

\* GET /activity_log
activity_log_view(page) ==
    /\ IF session.role \notin {"admin", "staff"}
       THEN resp' = Resp("activity_log", "redirect", None, "activity_log", 0)
       ELSE LET logs == PageOf(LogNewestFirst, page) IN
            resp' = [Resp("activity_log", "ok", None, "activity_log", 0)
                        EXCEPT !.body = [k \in 1..Len(logs) |-> record_name(logs[k])]]
    /\ UNCHANGED <<users, records, log, session, backups, clock, inflight>>

\* a set of ids in descending / ascending order
Desc(S) ==
    [k \in 1..Cardinality(S) |-> CHOOSE i \in S : Cardinality({j \in S : j > i}) = k - 1]
Asc(S) ==
    [k \in 1..Cardinality(S) |-> CHOOSE i \in S : Cardinality({j \in S : j < i}) = k - 1]
IdsDesc(tbl) == Desc(Ids(tbl))
IdsAsc(tbl) == Asc(Ids(tbl))

\* the String columns of a model, the ones the search looks in
TextColumns(t) ==
    {c \in DataColumns(t) : ~column_is_date(c) /\ ~column_is_numeric(c)}

\* column.ilike("%q%") on a stored value
ilike(v, q) == v # None /\ InText(Lower(q), Lower(v))

\* f"{int(month):02d}"; None when int() raises
TwoDigits(month) ==
    CASE month \in {"1", "01"} -> "01"
      [] month \in {"7", "07"} -> "07"
      [] month = "13" -> "13"
      [] OTHER -> None

\* SQLite strftime('%m', d) and strftime('%Y', d) on a stored date; None for NULL
strftime_m(d) ==
    CASE d = None -> None
      [] d \in {DateObj("2024-01-10"), DateObj("2025-01-04"), DateObj("2025-01-05")} -> "01"
      [] d = DateObj("2024-03-05") -> "03"
      [] OTHER -> "07"
strftime_Y(d) ==
    CASE d = None -> None
      [] d \in {DateObj("2025-01-04"), DateObj("2025-01-05")} -> "2025"
      [] OTHER -> "2024"

\* the month/year filter of both views: applied only when both are given
MonthYearMatch(row, month, year) ==
    (Truthy(month) /\ Truthy(year)) =>
        /\ strftime_m(row["date_issued"]) = TwoDigits(month)
        /\ strftime_Y(row["date_issued"]) = year

\* the query raises: int(month) fails while the filter is built
BadFilter(month, year) == Truthy(month) /\ Truthy(year) /\ TwoDigits(month) = None

\* view_func, lines 338-359: the ids the search and the filter select
Selected(t, q, month, year) ==
    {i \in Ids(records[t]) :
        /\ Truthy(q) => \E c \in TextColumns(t) : ilike(records[t][i][c], q)
        /\ MonthYearMatch(records[t][i], month, year)}

\* the recompute loop of both views: r.status as rendered on day today
Months(row) ==
    IF "purpose" \in DOMAIN row /\ row["purpose"] # None
          /\ InText("business", Lower(row["purpose"]))
    THEN 12 ELSE 6
\* Recomputed with "today >= expiry": a record expires on its expiry day
RecomputedInclusive(row, today) ==
    IF IsDate(row["date_issued"]) /\ "status" \in DOMAIN row
    THEN [row EXCEPT !["status"] =
             IF toordinal(today) >= toordinal(row["date_issued"]) + 30 * Months(row)
             THEN "Expired" ELSE "Valid"]
    ELSE row
Recomputed(row, today) ==
    IF IsDate(row["date_issued"]) /\ "status" \in DOMAIN row
    THEN [row EXCEPT !["status"] =
             IF toordinal(today) > toordinal(row["date_issued"]) + 30 * Months(row)
             THEN "Expired" ELSE "Valid"]
    ELSE row

\* row_to_dict(r, Model): the id and every column, dates as ISO texts
row_to_dict(t, id, row) ==
    [c \in ColumnSet(t) |->
        IF c = "id" THEN IntVal(id)
        ELSE IF IsDate(row[c]) THEN NameOnly(isoformat(row[c]))
        ELSE IF row[c] = None THEN NoText
        ELSE NameOnly(row[c])]

\* the records a view renders: recomputed and converted, in the order given
Rendered(t, order, today) ==
    [k \in 1..Len(order) |-> row_to_dict(t, order[k], Recomputed(records[t][order[k]], today))]

\* AfterRender with the session committed: the recomputed statuses are written
AfterRenderCommitted(t, today) ==
    [records EXCEPT ![t] = [i \in Ids(records[t]) |-> Recomputed(records[t][i], today)]]

\* the record tables once the request is over: the views assign r.status on the
\* loaded rows and never commit, and the session is discarded with the request
AfterRender(t, today) == records

\* PySlice with the end included: records[start:end + 1]
PySliceInclusive(seq, start, end) ==
    LET n == Len(seq)
        lo == IF start < 0 THEN 0 ELSE IF start > n THEN n ELSE start
        hi == IF end + 1 > n THEN n ELSE end + 1
    IN  IF hi <= lo THEN <<>> ELSE [k \in 1..(hi - lo) |-> seq[lo + k]]

\* records[start:end], Python slice semantics
PySlice(seq, start, end) ==
    LET n == Len(seq)
        clamp(x) == IF x < 0 THEN (IF n + x < 0 THEN 0 ELSE n + x)
                    ELSE IF x > n THEN n ELSE x
        lo == clamp(start)
        hi == clamp(end)
    IN  IF hi <= lo THEN <<>> ELSE [k \in 1..(hi - lo) |-> seq[lo + k]]

\* GET /<prefix>?q=&month=&year=&page=, read on day today
list_records(t, args, today) ==
    /\ IF BadFilter(args.month, args.year)
       THEN /\ resp' = Resp("list", "error", None, None, 0)
            /\ UNCHANGED records
       ELSE LET rows == Rendered(t, Desc(Selected(t, args.q, args.month, args.year)), today)
                start == (args.page - 1) * per_page
            IN  /\ resp' = [Resp("list", "ok", None, None, 0)
                               EXCEPT !.body = PySlice(rows, start, start + per_page)]
                /\ records' = AfterRender(t, today)
    /\ UNCHANGED <<users, log, session, backups, clock, inflight>>

\* CsvCell without the None test: str(None)
CsvCellStr(v) ==
    CASE v.kind = "null" -> "None"
      [] v.kind = "int" -> ToString(v.id)
      [] OTHER -> v.name

\* str(v) of a cell, "" for None
CsvCell(v) ==
    CASE v.kind = "null" -> ""
      [] v.kind = "int" -> ToString(v.id)
      [] OTHER -> v.name

\* the csv.writer rows of the export, cell by cell: the header, then the records
CsvRows(t, rows) ==
    <<Columns(t)>> \o
    [k \in 1..Len(rows) |-> [c \in 1..Len(Columns(t)) |-> CsvCell(rows[k][Columns(t)[c]])]]

\* GET /print?rtype=&month=&year=&export=, read on day today
print_view(rtype, args, today) ==
    /\ IF rtype \notin RTypes
       THEN /\ resp' = Resp("print", "rejected", "Invalid print type", None, 0)
            /\ UNCHANGED records
       ELSE IF BadFilter(args.month, args.year)
       THEN /\ resp' = Resp("print", "error", None, None, 0)
            /\ UNCHANGED records
       ELSE LET rows == Rendered(rtype, Asc(Selected(rtype, "", args.month, args.year)), today)
            IN  /\ resp' = IF args.export = "csv"
                           THEN [Resp("export", "ok", None, None, 0)
                                    EXCEPT !.body = CsvRows(rtype, rows)]
                           ELSE [Resp("print", "ok", None, None, 0) EXCEPT !.body = rows]
                /\ records' = AfterRender(rtype, today)
    /\ UNCHANGED <<users, log, session, backups, clock, inflight>>

\* ------------------------------------------------------------------ inputs

Names == {"ana", "ben"}
\* forms that submit a name only (None: the field is not in the form)
NameForms == {[name |-> n] : n \in {None, ""} \cup Names}
\* forms with an issue date that does not parse, or is left empty
DateForms == {[name |-> "ana", date_issued |-> d] : d \in {"bad", ""}}
CreateForms == {[name |-> n] : n \in {None, "", "ana"}} \cup DateForms
EditForms == NameForms \cup DateForms
RecordIds == 1..MaxRows

Usernames == {"captain", "secretary", "bob", ""}
Passwords == {"captain123", "secretary123", "pw"}
NewUsers ==
    {<<"bob", "pw", "staff">>, <<"", "pw", "admin">>, <<"captain", "pw", "staff">>,
     <<"bob", None, "staff">>}
UserIds == 2..3

\* query strings: no search, no filter, first page
PlainArgs == [q |-> "", month |-> "", year |-> "", page |-> 1, export |-> ""]
\* the day the server is read the clock on
FirstDay == DateObj("2024-01-10")

\* forms with an issue date, a purpose or a status text of their own
DatedForms ==
    {[name |-> "ana", date_issued |-> "2024-01-10", purpose |-> "school"],
     [name |-> "ben", date_issued |-> "2024-01-10", purpose |-> "Business Permit"],
     [name |-> "ana", status |-> "Pending"],
     [name |-> "ben", date_issued |-> "bad", purpose |-> "school"],
     [name |-> "ana", date_issued |-> "2024-01-10T08:30:00", status |-> "Pending"]}
\* the days a view is rendered on: the issue day, 180, 181, 200, 360, 361 days on
Todays == Dates \ {DateObj("2024-03-05")}
\* query strings with a search text, a month/year filter, half a filter, a month
\* that is no number, and the CSV export
QueryArgs ==
    {PlainArgs,
     [PlainArgs EXCEPT !.q = "AN"],
     [PlainArgs EXCEPT !.month = "1", !.year = "2024"],
     [PlainArgs EXCEPT !.month = "1"],
     [PlainArgs EXCEPT !.month = "jan", !.year = "2024"],
     [PlainArgs EXCEPT !.export = "csv"],
     [PlainArgs EXCEPT !.export = "csv", !.month = "01", !.year = "2024"]}

\* the view requests tried: every day without search or filter, and every query
\* string 200 days after the issue day
ViewRequests ==
    {<<PlainArgs, d>> : d \in Todays} \cup {<<a, DateObj("2024-07-28")>> : a \in QueryArgs}

\* uploaded files: a database file is [ext, tables], tables by table name
BlankRow(t, name) ==
    [c \in DataColumns(t) |->
        IF c = "name" THEN name ELSE IF c = "status" THEN "Valid" ELSE None]
OldEntry ==
    [id |-> 1, user |-> "captain", action |-> "CREATE", table_name |-> "indigency",
     record_id |-> Text(1, "ana"), timestamp |-> 0]
FileTables(recs, lg) ==
    [tn \in LiveTables |->
        IF tn = "user" THEN EmptyTable
        ELSE IF tn = "activity_log" THEN lg
        ELSE recs[CHOOSE t \in RTypes : TableName(t) = tn]]
NoRecords == [t \in RTypes |-> EmptyTable]
FileOld ==
    [ext |-> "db",
     tables |-> FileTables([NoRecords EXCEPT !["indigency"] =
                               Insert(EmptyTable, BlankRow("indigency", "ana"))],
                           <<OldEntry>>)]
FileNoTables == [ext |-> "db", tables |-> [tn \in {} |-> EmptyTable]]
FileForeign == [ext |-> "db", tables |-> [tn \in {"notes"} |-> EmptyTable]]
FileText == [ext |-> "txt", tables |-> [tn \in {} |-> EmptyTable]]
FileNone == [ext |-> None, tables |-> [tn \in {} |-> EmptyTable]]
\* a backup of a table of twelve records (id 7 was deleted before the backup)
BigIds == (1..13) \ {7}
FileBig ==
    [ext |-> "db",
     tables |-> FileTables([NoRecords EXCEPT !["indigency"] =
                               [i \in BigIds |->
                                   BlankRow("indigency", IF i % 2 = 1 THEN "ana" ELSE "ben")]],
                           <<>>)]
\* listing requests for the pages 0 to 3, with and without a search text
PageArgs == {[PlainArgs EXCEPT !.page = p, !.q = q] : p \in 0..3, q \in {"", "AN"}}

DbFiles == {FileOld, FileNoTables, FileForeign, FileText, FileNone}

\* ------------------------------------------------------------------ specification

\* the requests, by family; U and T are the usernames and record types tried
SessionOps(U) ==
    \/ \E u \in U, p \in Passwords : login(u, p)
    \/ logout

RecordOps(T) ==
    \/ \E t \in T, f \in CreateForms : create_record(t, f)
    \/ \E t \in T, i \in RecordIds, f \in EditForms : edit_record(t, i, f)
    \/ edit_record("bogus", 1, [name |-> "ana"])
    \/ \E t \in T, i \in RecordIds : delete_record(t, i)

ViewOps(T) ==
    \/ activity_log_view(1)
    \/ \E t \in T : list_records(t, PlainArgs, FirstDay)
    \/ \E t \in T : print_view(t, PlainArgs, FirstDay)

MaintenanceOps ==
    \/ backup_database
    \/ \E f \in DbFiles : restore_database(f)
    \/ reset_database

AccountOps ==
    \/ init_db
    \/ \E u \in {"captain", "secretary", "nobody"} : forgot_password(u)
    \/ \E a \in NewUsers : add_user(a[1], a[2], a[3])
    \/ \E p \in {"pw", "captain123"} : update_password("captain", p, "pw")
    \/ \E i \in UserIds : reset_user_password(i)
    \/ \E i \in UserIds : delete_user(i)

\* the whole system; records are kept in two of the five tables
Next ==
    \/ SessionOps({"captain", "secretary"})
    \/ RecordOps({"indigency", "firstjob"})
    \/ ViewOps({"indigency", "firstjob"})
    \/ MaintenanceOps
    \/ AccountOps

Spec == Init /\ [][Next]_vars

\* the record routes over all five tables, for a visitor and for a staff session
NextRecords ==
    \/ SessionOps({"secretary"})
    \/ RecordOps(RTypes)
    \/ ViewOps(RTypes)
    \/ MaintenanceOps

SpecRecords == Init /\ [][NextRecords]_vars

\* the account routes
NextAccounts ==
    \/ SessionOps(Usernames)
    \/ AccountOps
    \/ activity_log_view(1)

SpecAccounts == Init /\ [][NextAccounts]_vars

\* dated records of a type with a status and of the type without one, and the
\* views of them on later days
StatusTypes == {"clearance", "firstjob"}
NextStatus ==
    \/ \E t \in StatusTypes, f \in DatedForms : create_record(t, f)
    \/ \E t \in StatusTypes, i \in RecordIds, f \in DatedForms : edit_record(t, i, f)
    \/ \E t \in StatusTypes, i \in RecordIds : delete_record(t, i)
    \/ \E t \in StatusTypes, v \in ViewRequests : list_records(t, v[1], v[2])
    \/ \E t \in StatusTypes, v \in ViewRequests : print_view(t, v[1], v[2])

SpecStatus == Init /\ [][NextStatus]_vars

\* a table of more records than a page holds: restored, thinned out by deletes,
\* listed page by page and printed
NextPages ==
    \/ restore_database(FileBig)
    \/ \E i \in BigIds : delete_record("indigency", i)
    \/ \E f \in NameForms : create_record("indigency", f)
    \/ \E a \in PageArgs : list_records("indigency", a, FirstDay)
    \/ \E a \in {PlainArgs, [PlainArgs EXCEPT !.export = "csv"]} :
           print_view("indigency", a, FirstDay)

SpecPages == Init /\ [][NextPages]_vars

\* create requests served by two threads, each one's lookup and insert apart
RaceTypes == {"indigency", "clearance"}
NextRace ==
    \/ \E w \in Workers, t \in RaceTypes, f \in CreateForms : create_lookup(w, t, f)
    \/ \E w \in Workers : create_insert(w)

SpecRace == Init /\ [][NextRace]_vars

\* ------------------------------------------------------------------ properties

Last(seq) == seq[Len(seq)]
\* log' keeps every row of log, in place
LogKept == Len(log') >= Len(log) /\ \A i \in 1..Len(log) : log'[i] = log[i]
\* log' is log with exactly one row added
OneAppended == Len(log') = Len(log) + 1 /\ LogKept

\* C1: for every record type, a create submission whose required field (name) is
\* missing or empty is rejected with the message naming the field, and the record
\* tables and the audit log stay as they were.
C1_MissingRequiredRejected ==
    [][resp'.op = "create" =>
         \A t \in RTypes : \A f \in CreateForms :
            (~Truthy(Get(f, "name")) /\ create_record(t, f))
                => /\ resp'.status = "rejected"
                   /\ resp'.flash = "'Name' is required!"
                   /\ records' = records
                   /\ log' = log]_vars

\* a create without a name was rejected while rows and log entries were stored
C1_Witness ==
    /\ resp.op = "create" /\ resp.status = "rejected"
    /\ resp.flash = "'Name' is required!"
    /\ log # <<>>
    /\ \E t \in RTypes : records[t] # EmptyTable

\* C2: for every record type, a create submission whose name equals the name of a
\* stored record of that type is rejected: no row and no audit entry is added and
\* the stored records are unchanged.
C2_DuplicateNameRejected ==
    [][resp'.op = "create" =>
         \A t \in RTypes : \A f \in CreateForms :
            (/\ Truthy(Get(f, "name"))
             /\ \E i \in Ids(records[t]) : records[t][i]["name"] = Get(f, "name")
             /\ create_record(t, f))
                => /\ resp'.status = "rejected"
                   /\ records' = records
                   /\ log' = log]_vars

\* a create was rejected as a duplicate of a stored row
C2_Witness ==
    /\ resp.op = "create" /\ resp.status = "rejected"
    /\ resp.flash = "This person already exists in the records!"
    /\ \E t \in RTypes : \E i \in Ids(records[t]) : records[t][i]["name"] = "ana"

\* C3: after any sequence of operations every audit entry once appended is still
\* stored unchanged: on every step the log keeps its rows and only grows.
C3_AppendOnly == [][LogKept]_vars

\* the handlers that write an audit entry, and the action each one writes
LoggedOps ==
    {"create", "edit", "delete", "add_user", "update_password", "reset_user_password",
     "forgot_password", "delete_user"}
ActionOf(op) ==
    CASE op = "create" -> "CREATE"
      [] op = "edit" -> "UPDATE"
      [] op = "delete" -> "DELETE"
      [] op = "add_user" -> "CREATE USER"
      [] op = "update_password" -> "CHANGE PASSWORD"
      [] op \in {"reset_user_password", "forgot_password"} -> "RESET PASSWORD"
      [] op = "delete_user" -> "DELETE USER"

\* C4: every successful create, edit or delete of a record and every successful
\* account create, password change, password reset or delete appends exactly one
\* audit entry with the matching action and the lower-case table name (the record
\* table's name, "users" for accounts); a request that does not succeed appends
\* none and changes no record and no user.
C4_OneEntryPerMutation ==
    [][resp'.op \in LoggedOps =>
         IF resp'.status = "ok"
         THEN /\ OneAppended
              /\ Last(log').action = ActionOf(resp'.op)
              /\ Last(log').table_name =
                    (IF resp'.op \in {"create", "edit", "delete"}
                     THEN TableName(resp'.table) ELSE "users")
         ELSE /\ log' = log
              /\ records' = records
              /\ users' = users]_vars

\* a record was created and then deleted: two entries, one per change
C4_Witness ==
    /\ resp.op = "delete" /\ resp.status = "ok"
    /\ Len(log) = 2
    /\ log[1].action = "CREATE" /\ log[2].action = "DELETE"
    /\ log[1].table_name = "first_job_seeker"

\* the label holds the name n (a record without a name has none to show)
Contains(label, n) == Truthy(n) => label.kind \in {"text", "name"} /\ label.name = n

\* every stored snapshot entry of a record table is rendered as it was written,
\* whether or not the record is still stored
SnapshotsRendered ==
    \A k \in 1..Len(log) :
        (resolve_model(log[k].table_name) \in RTypes /\ log[k].record_id.kind = "text")
            => record_name(log[k]) = log[k].record_id

\* the entry a successful create, edit or delete writes is the snapshot of the
\* record's id and name (the name after a create or edit, before a delete), and
\* the view renders it, right after the change, with that name
SnapshotWritten ==
    (resp'.op \in {"create", "edit", "delete"} /\ resp'.status = "ok") =>
        LET t == resp'.table
            id == resp'.id
            n == IF resp'.op = "delete" THEN records[t][id]["name"]
                 ELSE records'[t][id]["name"]
            e == Last(log')
        IN  /\ Truthy(n) => e.record_id = Text(id, n)
            /\ Contains(RecordNameIn(e, users', records'), n)

\* C5: the audit entries of a record keep a readable label after the record is
\* deleted: each entry written by its creation, edits and deletion is a snapshot
\* holding the name the record had at that change, and the activity-log view
\* renders every stored snapshot as written, also when the record is gone.
C5_LabelsSurviveDeletion == []SnapshotsRendered /\ [][SnapshotWritten]_vars

\* a renamed record was deleted; its earlier entry still shows the earlier name
C5_Witness ==
    /\ resp.op = "delete" /\ resp.status = "ok"
    /\ Len(log) = 3
    /\ record_name(log[1]) = Text(1, "ana")
    /\ record_name(log[2]) = Text(1, "ben") /\ log[2].action = "UPDATE"
    /\ record_name(log[3]) = Text(1, "ben") /\ log[3].action = "DELETE"
    /\ records["indigency"] = EmptyTable

\* the rows of table tn in an uploaded file; none when the file lacks the table
FileRows(f, tn, none) == IF tn \in DOMAIN f.tables THEN f.tables[tn] ELSE none

\* C6: after a successful restore the user table is as before and every other
\* table holds exactly the rows of that table in the file (none when the file
\* lacks the table or holds it empty).
C6_RestoreReplaces ==
    [][(resp'.op = "restore" /\ resp'.status = "ok") =>
         \A f \in DbFiles :
            restore_database(f) =>
                /\ users' = users
                /\ \A t \in RTypes : records'[t] = FileRows(f, TableName(t), EmptyTable)
                /\ log' = FileRows(f, "activity_log", <<>>)]_vars

\* C7: after a successful reset the five record tables and the activity log hold
\* no rows and the user table holds the rows it held before.
C7_ResetEmpties ==
    [][(resp'.op = "reset" /\ resp'.status = "ok") =>
         /\ users' = users
         /\ \A t \in RTypes : records'[t] = EmptyTable
         /\ log' = <<>>]_vars

\* a reset after two logged changes, with a user added: nothing left but the users
C7_Witness ==
    /\ resp.op = "reset" /\ resp.status = "ok"
    /\ clock = MaxClock
    /\ log = <<>> /\ records = NoRecords
    /\ Cardinality(Ids(users)) = 3

\* C8: an account is created, has its password changed or reset, or is deleted
\* only by a request whose session role is admin; with any other session every
\* account-management request leaves the user table unchanged.
C8_AccountsAdminOnly ==
    [][(/\ resp'.op \in {"add_user", "update_password", "reset_user_password",
                         "forgot_password", "delete_user"}
        /\ session.role # "admin") => users' = users]_vars

\* C9: a request whose session carries neither the role admin nor staff creates,
\* edits or deletes no record and performs no backup, restore or reset: it leaves
\* every table (and the backup directory) unchanged.
C9_RecordsNeedRole ==
    [][(/\ resp'.op \in {"create", "edit", "delete", "backup", "restore", "reset"}
        /\ session.role \notin {"admin", "staff"})
          => /\ records' = records
             /\ log' = log
             /\ users' = users
             /\ backups' = backups]_vars

\* the stored users a username and password match
Matching(u, p) ==
    {i \in Ids(users) : users[i].username = u /\ users[i].password = generate_password_hash(p)}

\* C10: a login whose username and password match a stored user sets the
\* session's user id, username and role to that user's; a login with an unknown
\* username or a wrong password leaves the session unchanged; a logout leaves a
\* session with no identity and no role.
C10_LoginLogout ==
    [][/\ resp'.op = "login" =>
            \A u \in Usernames : \A p \in Passwords :
               login(u, p) =>
                  IF Matching(u, p) # {}
                  THEN \E i \in Matching(u, p) :
                          session' = [user_id |-> i, username |-> users[i].username,
                                      role |-> users[i].role]
                  ELSE session' = session
       /\ resp'.op = "logout" => session' = NoSession]_vars

\* a staff login replaced an admin session
C10_Witness ==
    /\ resp.op = "login" /\ resp.status = "ok"
    /\ session = [user_id |-> 2, username |-> "secretary", role |-> "staff"]
    /\ \E k \in 1..Len(log) : log[k].user = "captain"

\* the age of a dated record in days, and the status that age calls for: Expired
\* after more than 360 days with "business" in the purpose, 180 days without
Age(row, today) == toordinal(today) - toordinal(row["date_issued"])
Window(row) ==
    IF "purpose" \in DOMAIN row /\ row["purpose"] \in {"Business Permit", "business"}
    THEN 360 ELSE 180
DueStatus(row, today) == IF Age(row, today) > Window(row) THEN "Expired" ELSE "Valid"

\* C11: for every record with an issue date, the status a listing or print
\* render shows is Expired exactly when today is more than 30*M days after the
\* issue date (M = 12 with "business" in the purpose, in any letter case, else
\* 6), and Valid otherwise.
C11_StatusByAge ==
    [][(resp'.op \in {"list", "print"} /\ resp'.status = "ok") =>
         \A t \in StatusTypes : \A v \in ViewRequests :
            (list_records(t, v[1], v[2]) \/ print_view(t, v[1], v[2])) =>
                \A k \in 1..Len(resp'.body) :
                    LET shown == resp'.body[k]
                        row == records[t][shown["id"].id]
                    IN  (IsDate(row["date_issued"]) /\ "status" \in DOMAIN shown)
                            => shown["status"] = NameOnly(DueStatus(row, v[2]))]_vars

\* a listing of two records issued the same day: the business one still Valid,
\* the other one Expired
C11_Witness ==
    /\ resp.op = "list" /\ resp.status = "ok" /\ Len(resp.body) = 2
    /\ \A k \in 1..2 : "status" \in DOMAIN resp.body[k]
    /\ \A k \in 1..2 : resp.body[k]["date_issued"] = NameOnly("2024-01-10")
    /\ \E k \in 1..2 : /\ resp.body[k]["purpose"] = NameOnly("school")
                       /\ resp.body[k]["status"] = NameOnly("Expired")
    /\ \E k \in 1..2 : /\ resp.body[k]["purpose"] = NameOnly("Business Permit")
                       /\ resp.body[k]["status"] = NameOnly("Valid")

\* C12: for every type with a status field, the status every listing, print
\* render and CSV export shows for every record is Valid or Expired, whatever
\* create and edit submissions produced the record.
C12_StatusValidOrExpired ==
    /\ (resp.op \in {"list", "print"} /\ resp.status = "ok") =>
          \A k \in 1..Len(resp.body) :
              "status" \in DOMAIN resp.body[k] =>
                  resp.body[k]["status"] \in {NameOnly("Valid"), NameOnly("Expired")}
    /\ (resp.op = "export" /\ resp.status = "ok") =>
          \A c \in 1..Len(resp.body[1]) :
              resp.body[1][c] = "status" =>
                  \A k \in 2..Len(resp.body) : resp.body[k][c] \in {"Valid", "Expired"}

\* C13: a listing, print or CSV-export request changes no stored data (the
\* recomputed statuses are not written), and the stored status of a record
\* changes only through a create or edit submission.
C13_ViewsStoreNothing ==
    [][/\ resp'.op \in {"list", "print", "export"} =>
             /\ records' = records
             /\ users' = users
             /\ log' = log
             /\ backups' = backups
       /\ \A t \in StatusTypes : \A i \in Ids(records[t]) \cap Ids(records'[t]) :
             ("status" \in DOMAIN records[t][i]
                 /\ records'[t][i]["status"] # records[t][i]["status"])
                    => resp'.op \in {"create", "edit"}]_vars

\* a listing showed Expired for a record whose stored status is still Valid
C13_Witness ==
    /\ resp.op = "list" /\ resp.status = "ok"
    /\ \E k \in 1..Len(resp.body) :
          /\ "status" \in DOMAIN resp.body[k]
          /\ resp.body[k]["status"] = NameOnly("Expired")
          /\ records["clearance"][resp.body[k]["id"].id]["status"] = "Valid"

\* C14: after any sequence of create, edit and delete submissions every stored
\* record of every type has a name that is neither null nor the empty string.
C14_NamesNonEmpty ==
    \A t \in RTypes : \A i \in Ids(records[t]) : Truthy(records[t][i]["name"])

\* C15: on create and on edit, a date field submitted as a non-empty text that
\* parses neither as YYYY-MM-DD nor as an ISO date-time is stored as null, and
\* the submission is accepted without an error.
C15_BadDateStoredNull ==
    [][resp'.op \in {"create", "edit"} =>
         \A t \in StatusTypes : \A f \in DatedForms :
            (/\ Get(f, "date_issued") = "bad"
             /\ \/ (ByName(records[t], f["name"]) = {} /\ create_record(t, f))
                \/ \E i \in Ids(records[t]) : edit_record(t, i, f))
                => /\ resp'.status = "ok"
                   /\ records'[t][resp'.id]["date_issued"] = None]_vars

\* the ids of a rendered page, in the order shown
ShownIds(body) == [k \in 1..Len(body) |-> body[k]["id"].id]

\* C16: the listing shows, for a page p >= 1, exactly the matching records at the
\* positions (p-1)*10+1 .. p*10 of the descending-id order (so the pages are
\* disjoint, hold at most 10 records and cover all matching records), and the
\* print view lists all matching records by ascending id.
C16_PagesOfTen ==
    [][/\ (resp'.op = "list" /\ resp'.status = "ok") =>
            \A a \in PageArgs :
               (a.page >= 1 /\ list_records("indigency", a, FirstDay)) =>
                  LET M == Selected("indigency", a.q, a.month, a.year)
                      n == Cardinality(M)
                      first == (a.page - 1) * 10
                      shown == ShownIds(resp'.body)
                  IN  /\ Len(shown) = IF n - first >= 10 THEN 10
                                      ELSE IF n - first <= 0 THEN 0 ELSE n - first
                      /\ \A k \in 1..Len(shown) :
                            /\ shown[k] \in M
                            /\ Cardinality({j \in M : j > shown[k]}) = first + k - 1
       /\ (resp'.op = "print" /\ resp'.status = "ok") =>
            LET M == Ids(records["indigency"])
                shown == ShownIds(resp'.body)
            IN  /\ Len(shown) = Cardinality(M)
                /\ \A k \in 1..Len(shown) :
                      /\ shown[k] \in M
                      /\ Cardinality({j \in M : j < shown[k]}) = k - 1]_vars

\* the second page of a table of eleven records: the record with the lowest id
C16_Witness ==
    /\ resp.op = "list" /\ resp.status = "ok"
    /\ Cardinality(Ids(records["indigency"])) = 11
    /\ ShownIds(resp.body) = <<1>>

\* the CSV requests tried
CsvRequests == {v \in ViewRequests : v[1].export = "csv"}

\* C17: a CSV export of a record type is a header row equal to the type's
\* column names in schema order, then exactly one row per record matching the
\* month/year filter (every record without a filter) in ascending id order,
\* with dates written as ISO texts and nulls as the empty text (the status cell
\* holds the status as rendered).
C17_CsvExport ==
    [][(resp'.op = "export" /\ resp'.status = "ok") =>
         \A t \in StatusTypes : \A v \in CsvRequests :
            print_view(t, v[1], v[2]) =>
               LET M == {i \in Ids(records[t]) :
                            MonthYearMatch(records[t][i], v[1].month, v[1].year)}
                   csv == resp'.body
               IN  /\ csv[1] = Columns(t)
                   /\ Len(csv) = 1 + Cardinality(M)
                   /\ \A k \in 2..Len(csv) :
                         \E i \in M :
                            /\ Cardinality({j \in M : j < i}) = k - 2
                            /\ Len(csv[k]) = Len(Columns(t))
                            /\ \A c \in 1..Len(Columns(t)) :
                                  LET col == Columns(t)[c]
                                      stored == IF col = "id" THEN None ELSE records[t][i][col]
                                  IN  CASE col = "id" -> csv[k][c] = ToString(i)
                                        [] col = "status" -> TRUE
                                        [] stored = None -> csv[k][c] = ""
                                        [] IsDate(stored) ->
                                              csv[k][c] \in IsoDates /\ DateObj(csv[k][c]) = stored
                                        [] OTHER -> csv[k][c] = stored]_vars

\* an export of one clearance record: the header and one row with the issue date
\* as ISO text and an empty cell for the address
C17_Witness ==
    /\ resp.op = "export" /\ resp.status = "ok"
    /\ Len(resp.body) = 2
    /\ resp.body[1] = Columns("clearance")
    /\ resp.body[2][1] = "1" /\ resp.body[2][3] = "" /\ resp.body[2][11] = "2024-01-10"

\* C18: in every reachable state no two stored users share a username, and an
\* add-user request of an administrator naming a username already in use is
\* rejected with "Username already exists!" and leaves the user table as it was.
C18_UsernamesUnique ==
    /\ [](\A i, j \in Ids(users) : users[i].username = users[j].username => i = j)
    /\ [][resp'.op = "add_user" =>
            \A a \in NewUsers :
                (/\ session.role = "admin"
                 /\ \E i \in Ids(users) : users[i].username = a[1]
                 /\ add_user(a[1], a[2], a[3]))
                => /\ resp'.status = "rejected"
                   /\ resp'.flash = "Username already exists!"
                   /\ users' = users]_vars

\* a third account exists and a further request for a taken username was rejected
C18_Witness ==
    /\ resp.op = "add_user"
    /\ resp.status = "rejected"
    /\ Cardinality(Ids(users)) = 3

\* C19: whatever the interleaving of the lookups and inserts of create requests,
\* no two stored records of one type carry the same (non-empty) name.
C19_OneRowPerName ==
    \A t \in RTypes : \A i, j \in Ids(records[t]) :
        (Truthy(records[t][i].name) /\ records[t][i].name = records[t][j].name) => i = j

\* C20: the label the activity-log view renders for an audit entry that stays
\* in the log is the same after every operation as it was before it.
C20_LabelsNeverChange ==
    [][\A k \in 1..Len(log) :
          (k <= Len(log') /\ log'[k] = log[k])
          => RecordNameIn(log[k], users', records') = RecordNameIn(log[k], users, records)]_vars

\* C21: the user field of an entry a logged operation appends is never empty,
\* is the username of the session the request came with, and is "system"
\* exactly when that request had no logged-in session.
C21_ActorIsSessionUser ==
    [][(OneAppended /\ resp'.op # "restore") =>
          LET e == Last(log') IN
          /\ e.user # ""
          /\ (session.user_id # 0 => e.user = session.username)
          /\ (e.user = "system" <=> session.user_id = 0)]_vars

====
